---- MODULE Spec2Model ----
(***************************************************************************)
(* Model of src/unix_tools/text_tools.py: the four line filters Grep, Cut, *)
(* Sort and Uniq built on TextTool, run the way main() runs them: one tool *)
(* is constructed and its process_stream is called once on a text source.  *)
(*                                                                         *)
(* A line is a sequence of character codes (a Python str), so that         *)
(* splitting, searching, comparing and number parsing are computed and not *)
(* assumed.  A second invocation of the same tool, either on the same      *)
(* source or on the first invocation's output, lets two runs be compared.  *)
(***************************************************************************)
EXTENDS Integers, Sequences, FiniteSets, TLC

VARIABLES tool, cfg, input, pos, result, output, lines, counter, items, pc, run, first

vars == <<tool, cfg, input, pos, result, output, lines, counter, items, pc, run, first>>

\* Longest source, in lines.
MaxLen == 3

LF == 10
TAB == 9
SPACE == 32

(***************************************************************************)
(* Generic sequence helpers.                                               *)
(***************************************************************************)
SeqsUpTo(S, n) == UNION {[1..k -> S] : k \in 0..n}

Reverse(s) == [i \in 1..Len(s) |-> s[Len(s) + 1 - i]]

Range(s) == {s[i] : i \in 1..Len(s)}

\* Optional[str]: None, or a line.
None == [some |-> FALSE, val |-> <<>>, err |-> ""]
Some(l) == [some |-> TRUE, val |-> l, err |-> ""]
\* An exception leaving process_line.
Raise(e) == [some |-> FALSE, val |-> <<>>, err |-> e]
Raised(r) == r.err # ""

(***************************************************************************)
(* str.rstrip('\n'): every trailing line feed is removed.                  *)
(***************************************************************************)
RECURSIVE rstrip(_)
rstrip(s) ==
    IF Len(s) > 0 /\ s[Len(s)] = LF THEN rstrip(SubSeq(s, 1, Len(s) - 1)) ELSE s

(***************************************************************************)
(* Grep.  The pattern language is the part of Python's re used here: a     *)
(* sequence of literal characters and '.' (code 46, any character but a    *)
(* line feed); re.IGNORECASE folds the ASCII letters.                      *)
(***************************************************************************)
Lower(c) == IF c \in 65..90 THEN c + 32 ELSE c

AtomMatches(p, c, ignore_case) ==
    IF p = 46 THEN c # LF
    ELSE IF ignore_case THEN Lower(p) = Lower(c) ELSE p = c

\* re.compile(pattern, flags).search(line)
search(pattern, ignore_case, line) ==
    \E i \in 0..(Len(line) - Len(pattern)) :
        \A j \in 1..Len(pattern) : AtomMatches(pattern[j], line[i + j], ignore_case)

Grep_process_line_or(c, line) ==
    IF search(c.pattern, c.ignore_case, line) \/ c.invert THEN Some(line) ELSE None

Grep_process_line(c, line) ==
    LET matches == search(c.pattern, c.ignore_case, line)
    IN  IF matches # c.invert THEN Some(line) ELSE None

(***************************************************************************)
(* Cut.                                                                    *)
(***************************************************************************)
StartsWithAt(s, d, i) ==
    /\ i + Len(d) - 1 <= Len(s)
    /\ \A j \in 1..Len(d) : s[i + j - 1] = d[j]

\* str.split(sep) for a non-empty sep: cut at every occurrence, left to right,
\* occurrences not overlapping, consecutive separators giving empty fields.
RECURSIVE split(_, _)
split(s, d) ==
    LET hits == {i \in 1..Len(s) : StartsWithAt(s, d, i)}
    IN  IF hits = {} THEN <<s>>
        ELSE LET i == CHOOSE h \in hits : \A g \in hits : h <= g
             IN  <<SubSeq(s, 1, i - 1)>> \o split(SubSeq(s, i + Len(d), Len(s)), d)

\* sep.join(fields)
RECURSIVE join(_, _)
join(d, fs) ==
    IF fs = <<>> THEN <<>>
    ELSE IF Len(fs) = 1 THEN fs[1]
    ELSE fs[1] \o d \o join(d, Tail(fs))

\* parts[i]: a Python list index; -n..-1 count from the end, anything else
\* outside 0..n-1 raises IndexError.
InRange(parts, i) == -Len(parts) <= i /\ i < Len(parts)
Item(parts, i) == IF i >= 0 THEN parts[i + 1] ELSE parts[Len(parts) + i + 1]

Cut_process_line(c, line) ==
    IF c.delimiter = <<>> THEN Raise("ValueError")
    ELSE LET parts == split(line, c.delimiter)
         IN  IF \A k \in 1..Len(c.fields) : InRange(parts, c.fields[k])
             THEN Some(join(c.delimiter,
                            [k \in 1..Len(c.fields) |-> Item(parts, c.fields[k])]))
             ELSE Some(line)

(***************************************************************************)
(* list.sort(key=..., reverse=...): a stable sort; with reverse=True the   *)
(* order is descending and elements with equal keys still keep their       *)
(* original relative order.  Elements are [key, val] pairs; kind names the *)
(* key type: "str" (code point order), "float" or "int".                   *)
(***************************************************************************)
LexLess(a, b) ==
    \/ Len(a) < Len(b) /\ \A j \in 1..Len(a) : a[j] = b[j]
    \/ \E i \in 1..Len(a) :
        /\ i <= Len(b)
        /\ a[i] < b[i]
        /\ \A j \in 1..(i - 1) : a[j] = b[j]

Less(kind, a, b) ==
    CASE kind = "str" -> LexLess(a, b)
      [] kind = "float" -> a.num * b.den < b.num * a.den
      [] OTHER -> a < b

\* x goes before y in the sorted list although y came first.
Before(kind, reverse, x, y) ==
    IF reverse THEN Less(kind, y.key, x.key) ELSE Less(kind, x.key, y.key)

Insert(sorted, x, kind, reverse) ==
    LET later == {i \in 1..Len(sorted) : Before(kind, reverse, x, sorted[i])}
        at == IF later = {} THEN Len(sorted) + 1
              ELSE CHOOSE i \in later : \A j \in later : i <= j
    IN  SubSeq(sorted, 1, at - 1) \o <<x>> \o SubSeq(sorted, at, Len(sorted))

RECURSIVE SortPairs(_, _, _)
SortPairs(ps, kind, reverse) ==
    IF ps = <<>> THEN <<>>
    ELSE Insert(SortPairs(SubSeq(ps, 1, Len(ps) - 1), kind, reverse),
                ps[Len(ps)], kind, reverse)

list_sort(ps, kind, reverse) ==
    LET r == SortPairs(ps, kind, reverse) IN [i \in 1..Len(r) |-> r[i].val]

(***************************************************************************)
(* float(x), for lines made of a sign, digits and at most one '.', with at *)
(* least one digit: the value is num/den.  Any other line of the universes *)
(* used here (no blanks, exponents, underscores, "inf", "nan") raises      *)
(* ValueError.                                                             *)
(***************************************************************************)
IsDigit(c) == c \in 48..57

RECURSIVE DigitsValue(_)
DigitsValue(ds) ==
    IF ds = <<>> THEN 0
    ELSE 10 * DigitsValue(SubSeq(ds, 1, Len(ds) - 1)) + (ds[Len(ds)] - 48)

RECURSIVE Pow10(_)
Pow10(n) == IF n = 0 THEN 1 ELSE 10 * Pow10(n - 1)

float(x) ==
    LET signed == Len(x) > 0 /\ x[1] \in {43, 45}
        body == IF signed THEN Tail(x) ELSE x
        dots == {i \in 1..Len(body) : body[i] = 46}
        digs == {i \in 1..Len(body) : IsDigit(body[i])}
        ok == /\ digs # {}
              /\ Cardinality(dots) <= 1
              /\ Cardinality(dots) + Cardinality(digs) = Len(body)
        dot == IF dots = {} THEN Len(body) + 1 ELSE CHOOSE i \in dots : TRUE
        whole == SubSeq(body, 1, dot - 1)
        frac == SubSeq(body, dot + 1, Len(body))
        mag == DigitsValue(whole \o frac)
    IN  IF ~ok THEN [ok |-> FALSE, num |-> 0, den |-> 1]
        ELSE [ok |-> TRUE,
              num |-> IF signed /\ x[1] = 45 THEN 0 - mag ELSE mag,
              den |-> Pow10(Len(frac))]

\* The body of Sort.process_stream up to the write loop: the sorted list, or
\* the ValueError of the first key that does not parse.
Sort_sorted(c, ls) ==
    IF c.numeric
    THEN IF \E i \in 1..Len(ls) : ~float(ls[i]).ok
         THEN [ok |-> FALSE, val |-> ls]
         ELSE [ok |-> TRUE,
               val |-> list_sort([i \in 1..Len(ls) |-> [key |-> float(ls[i]), val |-> ls[i]]],
                                 "float", c.reverse)]
    ELSE [ok |-> TRUE,
          val |-> list_sort([i \in 1..Len(ls) |-> [key |-> ls[i], val |-> ls[i]]],
                            "str", c.reverse)]

(***************************************************************************)
(* Uniq.  The Counter is a dict: its entries keep the order in which their *)
(* keys were first inserted.                                               *)
(***************************************************************************)
Counter_incr_reset(cnt, line) ==
    IF \E i \in 1..Len(cnt) : cnt[i].line = line
    THEN [i \in 1..Len(cnt) |->
            IF cnt[i].line = line THEN [cnt[i] EXCEPT !.n = 1] ELSE cnt[i]]
    ELSE Append(cnt, [line |-> line, n |-> 1])

Counter_incr_adjacent(cnt, line) ==
    IF cnt # <<>> /\ cnt[Len(cnt)].line = line
    THEN [cnt EXCEPT ![Len(cnt)].n = @ + 1]
    ELSE Append(cnt, [line |-> line, n |-> 1])

Counter_incr(cnt, line) ==
    IF \E i \in 1..Len(cnt) : cnt[i].line = line
    THEN [i \in 1..Len(cnt) |->
            IF cnt[i].line = line THEN [cnt[i] EXCEPT !.n = @ + 1] ELSE cnt[i]]
    ELSE Append(cnt, [line |-> line, n |-> 1])

most_common_reversed(cnt) ==
    Reverse(list_sort([i \in 1..Len(cnt) |-> [key |-> cnt[i].n, val |-> cnt[i]]],
                      "int", FALSE))

\* Counter.most_common(): sorted(items, key=count, reverse=True).
most_common(cnt) ==
    list_sort([i \in 1..Len(cnt) |-> [key |-> cnt[i].n, val |-> cnt[i]]], "int", TRUE)

\* str(count) of the f-string.
RECURSIVE str(_)
str(n) == IF n < 10 THEN <<48 + n>> ELSE str(n \div 10) \o <<48 + (n % 10)>>

Uniq_format(c, item) ==
    IF c.count THEN str(item.n) \o <<SPACE>> \o item.line \o <<LF>>
    ELSE item.line \o <<LF>>

\* Sort.process_line: buffer the line, no output.  Only the inherited
\* TextTool.process_stream calls process_line, and Sort overrides it.
Sort_process_line(ls, line) == Append(ls, line)

(***************************************************************************)
(* Inputs: tools, their configurations (the constructors' arguments) and   *)
(* text sources.  A source is a sequence of raw lines, each ended by a     *)
(* line feed except, possibly, the last.                                   *)
(***************************************************************************)
Tools == {"grep", "cut", "sort", "uniq"}

PerLine == {"grep", "cut"}

\* "a", "Ab", "b"
GrepLines == {<<97>>, <<65, 98>>, <<98>>}
\* "a", "A."
Patterns == {<<97>>, <<65, 46>>}
\* "a\tb", "a,b,c", "c"
CutLines == {<<97, TAB, 98>>, <<97, 44, 98, 44, 99>>, <<99>>}
\* [0], [1,0], [2], [-1]
FieldLists == {<<0>>, <<1, 0>>, <<2>>, <<-1>>}
\* "\t", ",", ""
Delimiters == {<<TAB>>, <<44>>, <<>>}
\* "1", "1.0", "10", "2", "a"
SortLines == {<<49>>, <<49, 46, 48>>, <<49, 48>>, <<50>>, <<97>>}
\* "a", "b", "1 a"
UniqLines == {<<97>>, <<98>>, <<49, SPACE, 97>>}

Universe(t) ==
    CASE t = "grep" -> GrepLines
      [] t = "cut" -> CutLines
      [] t = "sort" -> SortLines
      [] OTHER -> UniqLines

\* The constructors' defaults (lines 29, 43, 58, 80).
Defaults ==
    [pattern |-> <<>>, ignore_case |-> FALSE, invert |-> FALSE,
     fields |-> <<>>, delimiter |-> <<TAB>>,
     reverse |-> FALSE, numeric |-> FALSE, count |-> FALSE]

Configs(t) ==
    CASE t = "grep" ->
            {[Defaults EXCEPT !.pattern = p, !.ignore_case = i, !.invert = v] :
                p \in Patterns, i \in BOOLEAN, v \in BOOLEAN}
      [] t = "cut" ->
            {[Defaults EXCEPT !.fields = f, !.delimiter = d] :
                f \in FieldLists, d \in Delimiters}
      [] t = "sort" ->
            {[Defaults EXCEPT !.reverse = r, !.numeric = n] :
                r \in BOOLEAN, n \in BOOLEAN}
      [] OTHER -> {[Defaults EXCEPT !.count = c] : c \in BOOLEAN}

Terminated(ls, last) ==
    [i \in 1..Len(ls) |-> IF i < Len(ls) \/ last THEN ls[i] \o <<LF>> ELSE ls[i]]

\* Uniq's sources are one line longer than the others', so that one run can
\* hold both two lines of equal count and two of different counts.
SourceLen(t) == IF t = "uniq" THEN MaxLen + 1 ELSE MaxLen

Sources(t) ==
    {Terminated(ls, last) : ls \in SeqsUpTo(Universe(t), SourceLen(t)), last \in BOOLEAN}

\* The lines of a text, terminators stripped.
Contents(text) == [i \in 1..Len(text) |-> rstrip(text[i])]

(***************************************************************************)
(* The state after construction (TextTool.__init__ and the subclass'       *)
(* __init__), process_stream about to run.                                 *)
(***************************************************************************)
NoRun == [cfg |-> Defaults, input |-> <<>>, output |-> <<>>, pos |-> 0, pc |-> "none"]

Fresh ==
    /\ pos = 0
    /\ result = None
    /\ output = <<>>
    /\ lines = <<>>
    /\ counter = <<>>
    /\ items = <<>>
    /\ pc = "loop"

Init ==
    /\ tool \in Tools
    /\ cfg \in Configs(tool)
    /\ input \in Sources(tool)
    /\ Fresh
    /\ run = 1
    /\ first = NoRun

process_line(t, c, line) ==
    IF t = "grep" THEN Grep_process_line(c, line) ELSE Cut_process_line(c, line)

(***************************************************************************)
(* TextTool.process_stream, inherited by Grep and Cut, one loop step at a  *)
(* time: read and process the next line, then write the result if any.     *)
(***************************************************************************)
TextTool_next ==
    /\ tool \in PerLine
    /\ pc = "loop"
    /\ pos < Len(input)
    /\ pos' = pos + 1
    /\ LET r == process_line(tool, cfg, rstrip(input[pos + 1]))
       IN  /\ result' = r
           /\ pc' = IF Raised(r) THEN "error" ELSE IF r.some THEN "write" ELSE "loop"
    /\ UNCHANGED <<tool, cfg, input, output, lines, counter, items, run, first>>

TextTool_write ==
    /\ tool \in PerLine
    /\ pc = "write"
    /\ output' = Append(output, result.val \o <<LF>>)
    /\ result' = None
    /\ pc' = "loop"
    /\ UNCHANGED <<tool, cfg, input, pos, lines, counter, items, run, first>>

TextTool_return ==
    /\ tool \in PerLine
    /\ pc = "loop"
    /\ pos = Len(input)
    /\ pc' = "done"
    /\ UNCHANGED <<tool, cfg, input, pos, result, output, lines, counter, items, run, first>>

(***************************************************************************)
(* Sort.process_stream: sorts self.lines and writes them.  The source is   *)
(* not read: the override does not call the inherited loop.                *)
(***************************************************************************)
\* The inherited loop run over a whole text: process_line on every line.
RECURSIVE Sort_buffered(_, _)
Sort_buffered(ls, text) ==
    IF text = <<>> THEN ls
    ELSE Sort_buffered(Sort_process_line(ls, rstrip(Head(text))), Tail(text))

Sort_process_stream_reading ==
    /\ tool = "sort"
    /\ pc = "loop"
    /\ pos' = Len(input)
    /\ LET buffered == Sort_buffered(lines, input)
           s == Sort_sorted(cfg, buffered)
       IN  /\ lines' = s.val
           /\ output' = IF s.ok THEN output \o [i \in 1..Len(s.val) |-> s.val[i] \o <<LF>>]
                        ELSE output
           /\ pc' = IF s.ok THEN "done" ELSE "error"
    /\ UNCHANGED <<tool, cfg, input, result, counter, items, run, first>>

Sort_process_stream ==
    /\ tool = "sort"
    /\ pc = "loop"
    /\ LET s == Sort_sorted(cfg, lines)
       IN  /\ lines' = s.val
           /\ output' = IF s.ok THEN output \o [i \in 1..Len(s.val) |-> s.val[i] \o <<LF>>]
                        ELSE output
           /\ pc' = IF s.ok THEN "done" ELSE "error"
    /\ UNCHANGED <<tool, cfg, input, pos, result, counter, items, run, first>>

(***************************************************************************)
(* Uniq.process_stream: the counting loop, then the writing loop over      *)
(* most_common().                                                          *)
(***************************************************************************)
Uniq_count_eager ==
    /\ tool = "uniq"
    /\ pc = "loop"
    /\ pos < Len(input)
    /\ pos' = pos + 1
    /\ LET line == rstrip(input[pos + 1])
       IN  /\ counter' = Counter_incr(counter, line)
           /\ output' = IF \E i \in 1..Len(counter) : counter[i].line = line
                        THEN output ELSE Append(output, line \o <<LF>>)
    /\ UNCHANGED <<tool, cfg, input, result, lines, items, pc, run, first>>

Uniq_count ==
    /\ tool = "uniq"
    /\ pc = "loop"
    /\ pos < Len(input)
    /\ pos' = pos + 1
    /\ counter' = Counter_incr(counter, rstrip(input[pos + 1]))
    /\ UNCHANGED <<tool, cfg, input, result, output, lines, items, pc, run, first>>

Uniq_most_common ==
    /\ tool = "uniq"
    /\ pc = "loop"
    /\ pos = Len(input)
    /\ items' = most_common(counter)
    /\ pc' = "emit"
    /\ UNCHANGED <<tool, cfg, input, pos, result, output, lines, counter, run, first>>

Uniq_write ==
    /\ tool = "uniq"
    /\ pc = "emit"
    /\ items # <<>>
    /\ output' = Append(output, Uniq_format(cfg, Head(items)))
    /\ items' = Tail(items)
    /\ UNCHANGED <<tool, cfg, input, pos, result, lines, counter, pc, run, first>>

Uniq_return ==
    /\ tool = "uniq"
    /\ pc = "emit"
    /\ items = <<>>
    /\ pc' = "done"
    /\ UNCHANGED <<tool, cfg, input, pos, result, output, lines, counter, items, run, first>>

(***************************************************************************)
(* main() again: a second invocation of the same command, with any flags,  *)
(* on the same source (Rerun) or on what the first one wrote (Pipe).       *)
(***************************************************************************)
Finished == pc \in {"done", "error"}

Snapshot == [cfg |-> cfg, input |-> input, output |-> output, pos |-> pos, pc |-> pc]

Restart(c, src) ==
    /\ run' = 2
    /\ first' = Snapshot
    /\ cfg' = c
    /\ input' = src
    /\ pos' = 0
    /\ result' = None
    /\ output' = <<>>
    /\ lines' = <<>>
    /\ counter' = <<>>
    /\ items' = <<>>
    /\ pc' = "loop"
    /\ UNCHANGED tool

Rerun ==
    /\ run = 1
    /\ Finished
    /\ \E c \in Configs(tool) : Restart(c, input)

Pipe ==
    /\ run = 1
    /\ pc = "done"
    /\ \E c \in Configs(tool) : Restart(c, output)

Next ==
    \/ TextTool_next
    \/ TextTool_write
    \/ TextTool_return
    \/ Sort_process_stream
    \/ Uniq_count
    \/ Uniq_most_common
    \/ Uniq_write
    \/ Uniq_return
    \/ Rerun
    \/ Pipe

Spec == Init /\ [][Next]_vars

(***************************************************************************)
(* Vocabulary of the properties.                                           *)
(***************************************************************************)
Occ(text, l) == Cardinality({i \in 1..Len(text) : text[i] = l})

FirstIdx(text, l) == CHOOSE i \in 1..Len(text) : text[i] = l /\ \A j \in 1..(i - 1) : text[j] # l

SameMultiset(a, b) == \A l \in Range(a) \cup Range(b) : Occ(a, l) = Occ(b, l)

Ascending(text) == \A i \in 1..(Len(text) - 1) : ~LexLess(text[i + 1], text[i])

\* The elements of text at the positions in S, in order.
RECURSIVE Pick(_, _)
Pick(text, S) ==
    IF text = <<>> THEN <<>>
    ELSE Pick(SubSeq(text, 1, Len(text) - 1), S)
            \o (IF Len(text) \in S THEN <<text[Len(text)]>> ELSE <<>>)

AllTerminated(text) == [i \in 1..Len(text) |-> text[i] \o <<LF>>]

\* A line "<count> <text>" of Uniq's count mode, read back.
SpaceAt(l) == CHOOSE i \in 1..Len(l) : l[i] = SPACE /\ \A j \in 1..(i - 1) : l[j] # SPACE
CountOf(l) == DigitsValue(SubSeq(l, 1, SpaceAt(l) - 1))
TextOf(l) == SubSeq(l, SpaceAt(l) + 1, Len(l))
WellCounted(l) ==
    /\ \E i \in 2..Len(l) : l[i] = SPACE
    /\ \A j \in 1..(SpaceAt(l) - 1) : IsDigit(l[j])

RECURSIVE Sum(_)
Sum(ns) == IF ns = <<>> THEN 0 ELSE Head(ns) + Sum(Tail(ns))

\* The line Uniq emitted as its k-th, without count and terminator.
Emitted(k) == IF cfg.count THEN TextOf(rstrip(output[k])) ELSE rstrip(output[k])

SameSourceTwice == run = 2 /\ pc = "done" /\ first.pc = "done" /\ first.input = input

(***************************************************************************)
(* C1: Sort with reverse=False, numeric=False writes the input lines as a  *)
(* permutation in ascending lexicographic order (same multiset, each line  *)
(* <= the next).  The code writes nothing: the source is never read.       *)
(***************************************************************************)
C1_SortAscendingPermutation ==
    (tool = "sort" /\ pc = "done" /\ ~cfg.reverse /\ ~cfg.numeric) =>
        /\ \A i \in 1..Len(output) : output[i] = rstrip(output[i]) \o <<LF>>
        /\ SameMultiset(Contents(output), Contents(input))
        /\ Ascending(Contents(output))

(***************************************************************************)
(* C2: for every tool, when process_stream returns successfully every line *)
(* of the source has been read.  Sort returns without reading any.         *)
(***************************************************************************)
C2_SourceReadOnReturn == pc = "done" => pos = Len(input)

(***************************************************************************)
(* C3: Uniq emits each distinct input line exactly once; with the count    *)
(* flag the printed count of a line is its number of occurrences in the    *)
(* input, so the counts sum to the number of input lines.                  *)
(***************************************************************************)
C3_UniqOncePerLineWithCount ==
    (tool = "uniq" /\ pc = "done") =>
        LET in == Contents(input)
            out == Contents(output)
        IN  /\ Len(out) = Cardinality(Range(in))
            /\ \A k \in 1..Len(output) : output[k] = out[k] \o <<LF>>
            /\ IF cfg.count
               THEN /\ \A k \in 1..Len(out) : WellCounted(out[k])
                    /\ \A l \in Range(in) :
                        Cardinality({k \in 1..Len(out) : TextOf(out[k]) = l}) = 1
                    /\ \A k \in 1..Len(out) : CountOf(out[k]) = Occ(in, TextOf(out[k]))
                    /\ Sum([k \in 1..Len(out) |-> CountOf(out[k])]) = Len(input)
               ELSE \A l \in Range(in) : Occ(out, l) = 1

C3_Witness ==
    /\ tool = "uniq"
    /\ pc = "done"
    /\ cfg.count
    /\ Len(output) >= 2
    /\ Len(input) > Len(output)

(***************************************************************************)
(* C4: on the same input and pattern, Grep with invert=True emits exactly  *)
(* the lines Grep with invert=False does not: each input line is emitted,  *)
(* unchanged, by the one run where matches XOR invert is true, and each    *)
(* output keeps the input order.                                           *)
(***************************************************************************)
C4_GrepInvertComplement ==
    ( /\ tool = "grep"
      /\ SameSourceTwice
      /\ first.cfg.pattern = cfg.pattern
      /\ first.cfg.ignore_case = cfg.ignore_case
      /\ first.cfg.invert # cfg.invert ) =>
        LET in == Contents(input)
            M == {i \in 1..Len(in) : search(cfg.pattern, cfg.ignore_case, in[i])}
            plain == IF cfg.invert THEN first.output ELSE output
            inverted == IF cfg.invert THEN output ELSE first.output
        IN  /\ plain = AllTerminated(Pick(in, M))
            /\ inverted = AllTerminated(Pick(in, (1..Len(in)) \ M))

C4_Witness ==
    /\ tool = "grep"
    /\ SameSourceTwice
    /\ first.cfg.pattern = cfg.pattern
    /\ first.cfg.ignore_case = cfg.ignore_case
    /\ first.cfg.invert # cfg.invert
    /\ output # <<>>
    /\ first.output # <<>>
    /\ Len(input) = 3

(***************************************************************************)
(* C5: with a delimiter to split on, Cut emits the line unmodified         *)
(* whenever a requested index is not one of the positions 0..n-1 of the    *)
(* line's n fields, and otherwise the selected fields in index-list order  *)
(* joined by the delimiter; it never raises.  The code takes a negative    *)
(* index from the end of the field list instead of falling back.           *)
(***************************************************************************)
C5_CutOutOfRangeFallback ==
    (tool = "cut" /\ cfg.delimiter # <<>> /\ pos > 0 /\ pc \in {"write", "error"}) =>
        LET line == rstrip(input[pos])
            parts == split(line, cfg.delimiter)
            n == Len(parts)
            outOfRange == \E k \in 1..Len(cfg.fields) : cfg.fields[k] \notin 0..(n - 1)
        IN  /\ pc # "error"
            /\ result.some
            /\ result.val =
                IF outOfRange THEN line
                ELSE join(cfg.delimiter,
                          [k \in 1..Len(cfg.fields) |-> parts[cfg.fields[k] + 1]])

(***************************************************************************)
(* C6: Sort with the numeric flag on a source holding a line that is not a *)
(* number ends in an error, nothing written.  The code ends successfully:  *)
(* no line is ever parsed, the source not being read.                      *)
(***************************************************************************)
C6_NumericParseErrorAllOrNothing ==
    ( /\ tool = "sort"
      /\ cfg.numeric
      /\ Finished
      /\ \E i \in 1..Len(input) : ~float(rstrip(input[i])).ok ) =>
        /\ pc = "error"
        /\ output = <<>>

C8_UniqIdempotent ==
    ( /\ tool = "uniq"
      /\ run = 2
      /\ pc = "done"
      /\ first.pc = "done"
      /\ ~first.cfg.count
      /\ input = first.output ) =>
        LET given == Contents(first.output)
        IN  /\ \A l \in Range(given) : Occ(given, l) = 1
            /\ \A i \in 1..Len(counter) : counter[i].n = 1
            /\ {counter[i].line : i \in 1..Len(counter)} = Range(given)
            /\ {Emitted(k) : k \in 1..Len(output)} = Range(given)
            /\ Len(output) = Len(given)
            /\ ~cfg.count => Range(output) = Range(first.output)
            /\ cfg.count => \A k \in 1..Len(output) : CountOf(rstrip(output[k])) = 1

C8_Witness ==
    /\ tool = "uniq"
    /\ run = 2
    /\ pc = "done"
    /\ first.pc = "done"
    /\ ~first.cfg.count
    /\ input = first.output
    /\ Len(first.input) > Len(first.output)
    /\ Len(output) >= 2

(***************************************************************************)
(* C9: Uniq emits the distinct lines by non-increasing occurrence count,   *)
(* lines of equal count in the order of their first occurrence in the      *)
(* input.                                                                  *)
(***************************************************************************)
C9_UniqOrder ==
    (tool = "uniq" /\ pc = "done") =>
        LET in == Contents(input)
        IN  \A i, j \in 1..Len(output) :
                i < j =>
                    /\ Emitted(i) \in Range(in)
                    /\ Emitted(j) \in Range(in)
                    /\ Occ(in, Emitted(i)) >= Occ(in, Emitted(j))
                    /\ Occ(in, Emitted(i)) = Occ(in, Emitted(j)) =>
                        FirstIdx(in, Emitted(i)) < FirstIdx(in, Emitted(j))

C9_Witness ==
    /\ tool = "uniq"
    /\ pc = "done"
    /\ Len(output) = 3
    /\ LET in == Contents(input)
       IN  /\ Occ(in, Emitted(1)) > Occ(in, Emitted(2))
           /\ Occ(in, Emitted(2)) = Occ(in, Emitted(3))
           /\ LexLess(Emitted(3), Emitted(2))

(***************************************************************************)
(* C10: a per-line tool (Grep, Cut) has written the output of every line   *)
(* it has read, one line at most for each, before it reads the next; a     *)
(* whole-stream tool (Sort, Uniq) writes nothing before the whole source   *)
(* has been read.                                                          *)
(***************************************************************************)
C10_OutputTiming ==
    /\ (tool \in PerLine) =>
        LET produced == {k \in 1..pos : process_line(tool, cfg, rstrip(input[k])).some}
        IN  /\ Len(output) <= pos
            /\ pc \in {"loop", "done"} => Len(output) = Cardinality(produced)
            /\ pc = "write" => Len(output) = Cardinality(produced) - 1
    /\ (tool \notin PerLine) => (output # <<>> => pos = Len(input))

C10_Witness ==
    /\ tool \in PerLine
    /\ pc = "loop"
    /\ pos = 2
    /\ pos < Len(input)
    /\ Len(output) = 2

====
